---- MODULE Spec2Model ----
(***************************************************************************)
(* Model of the useModelGenerator hook                                     *)
(* (sketch-to-sky-ui/src/hooks/useModelGenerator.ts): the generation       *)
(* history kept in the query cache, its copy in localStorage, the selected *)
(* id, and the mutations started by generateModel.                         *)
(*                                                                         *)
(* JavaScript runs each callback to completion, and promise continuations  *)
(* are microtasks that run before the next event.  One action is therefore *)
(* one event: a call of the hook's API by the view, or the arrival of one  *)
(* HTTP response together with every continuation it triggers.             *)
(***************************************************************************)
EXTENDS Integers, Sequences, FiniteSets, TLC

(* ----------------------------- bounds ---------------------------------- *)
MaxCalls == 2        \* generateModel calls per behaviour
MaxTime == 1         \* last value of the millisecond clock
MaxCodecLen == 2     \* longest history given to the codec alone

(* ------------------------- program constants --------------------------- *)
HISTORY_CAP == 20    \* .slice(0, 20)

(* ------------------------- JavaScript values --------------------------- *)
Undefined == "undefined"
Null == "null"
NullId == <<"null", 0>>          \* selectedId === null

EmptyPromptError == "Prompt is empty."
EmptyResponseError == "The AI service returned no model URL."
TransportError == "axios error"

Whitespace == {" "}

(* String.prototype.trim on a string given as a sequence of characters. *)
RECURSIVE trimStart(_)
trimStart(s) ==
  IF s # <<>> /\ Head(s) \in Whitespace THEN trimStart(Tail(s)) ELSE s

RECURSIVE trimEnd(_)
trimEnd(s) ==
  IF s # <<>> /\ s[Len(s)] \in Whitespace
  THEN trimEnd(SubSeq(s, 1, Len(s) - 1))
  ELSE s

trim(s) == trimEnd(trimStart(s))

(* The prompts the view passes to generateModel: empty, blank, and a text  *)
(* with blanks around it.                                                  *)
Prompts == { <<>>, <<" ">>, <<" ", "a", " ">> }

(* Bodies the generation service answers with on a 2xx response. *)
Responses ==
  { [url |-> "a.glb", thumbnailUrl |-> "a.png", metadata |-> "{wingspan}"],
    [url |-> "b.glb", thumbnailUrl |-> Undefined, metadata |-> Undefined],
    [url |-> "", thumbnailUrl |-> "c.png", metadata |-> Undefined],
    [url |-> Undefined, thumbnailUrl |-> Undefined, metadata |-> Undefined] }

(* ------------------------------ codec ---------------------------------- *)
EntryKeys == {"id", "prompt", "url", "thumbnailUrl", "metadata", "createdAt"}
OptionalKeys == {"thumbnailUrl", "metadata"}

(* A serializer that writes null for an undefined property. *)
stringifyEntryWithNulls(e) ==
  [k \in EntryKeys |->
     IF k \in OptionalKeys /\ e[k] = Undefined THEN Null ELSE e[k]]

(* JSON.stringify of one entry: a property whose value is undefined is left *)
(* out of the text.                                                         *)
stringifyEntry(e) ==
  LET keys == (EntryKeys \ OptionalKeys) \cup {k \in OptionalKeys : e[k] # Undefined}
  IN  [k \in keys |-> e[k]]

(* A property read of a parsed object: a missing property reads undefined. *)
parseEntry(o) ==
  [k \in EntryKeys |-> IF k \in DOMAIN o THEN o[k] ELSE Undefined]

(* What reading the localStorage item gives.  <<"json", objs>> is the text *)
(* of an array of objects; the other values are named by their first part: *)
(*   "no-window"  typeof window === 'undefined'                            *)
(*   "denied"     getItem throws (storage disabled)                        *)
(*   "absent"     getItem returns null                                     *)
(*   "empty"      the text ''                                              *)
(*   "malformed"  a text JSON.parse throws on                              *)
(*   "object", "number", "string", "null-literal"                          *)
(*                texts that parse to a value that is no array             *)
NoItem == <<"absent">>

NonArrayTexts == {<<"object">>, <<"number">>, <<"string">>, <<"null-literal">>}

JSONstringify(entries) ==
  <<"json", [i \in 1..Len(entries) |-> stringifyEntry(entries[i])]>>

(* JSON.parse: throws, or gives a value that is an array or not. *)
JSONparse(text) ==
  IF text[1] = "json"
  THEN [threw |-> FALSE, isArray |-> TRUE,
        value |-> [i \in 1..Len(text[2]) |-> parseEntry(text[2][i])]]
  ELSE [threw |-> text[1] = "malformed", isArray |-> FALSE, value |-> <<>>]

Returned(value) == [raised |-> FALSE, value |-> value]
Raised == [raised |-> TRUE, value |-> <<>>]

(* readHistory without its try/catch. *)
readHistoryUncaught(item) ==
  IF item[1] = "no-window" THEN Returned(<<>>)
  ELSE IF item[1] = "denied" THEN Raised
  ELSE IF item[1] \in {"absent", "empty"} THEN Returned(<<>>)
  ELSE LET parsed == JSONparse(item)
       IN  IF parsed.threw THEN Raised
           ELSE IF parsed.isArray THEN Returned(parsed.value)
           ELSE Returned(<<>>)

(* The outcome of readHistory(): the value returned, or an exception. *)
readHistoryOutcome(item) ==
  IF item[1] = "no-window" THEN Returned(<<>>)
  ELSE IF item[1] = "denied" THEN Returned(<<>>)           \* catch
  ELSE IF item[1] \in {"absent", "empty"} THEN Returned(<<>>)
  ELSE LET parsed == JSONparse(item)
       IN  IF parsed.threw THEN Returned(<<>>)             \* catch
           ELSE IF parsed.isArray THEN Returned(parsed.value)
           ELSE Returned(<<>>)

readHistory(item) == readHistoryOutcome(item).value

(* ------------------------------ state ---------------------------------- *)
VARIABLES
  store,        \* localStorage item 'sketch-to-sky::history'
  history,      \* query data of ['model-history']
  selectedId,   \* useState selectedId
  mutations,    \* state of the mutations built by mutateAsync, in the order issued
  requests,     \* axios.post calls not yet answered, with the awaiting prompt
  current,      \* index of the mutation the observer is attached to, 0 if none
  hasRandomUUID,\* 'randomUUID' in crypto
  uuids,        \* number of values crypto.randomUUID has returned
  now           \* Date.now()

vars == <<store, history, selectedId, mutations, requests, current, hasRandomUUID, uuids, now>>

(* ------------------------ read surface of the hook --------------------- *)
isPending == current # 0 /\ mutations[current].status = "pending"

isGenerating == isPending

errorOfDropped(mutationError) == Null

errorOf(mutationError) == mutationError

error == IF current = 0 THEN Null ELSE errorOf(mutations[current].error)

find(h, id) ==
  LET hits == {i \in 1..Len(h) : h[i].id = id}
  IN  IF hits = {} THEN <<>>
      ELSE <<h[CHOOSE i \in hits : \A j \in hits : i <= j]>>

selectedModelOfNoFallback(h, id) == find(h, id)

(* null is <<>>, a record r is <<r>> *)
selectedModelOf(h, id) ==
  IF find(h, id) # <<>> THEN find(h, id)
  ELSE IF h # <<>> THEN <<h[1]>>
  ELSE <<>>

selectedModel == selectedModelOf(history, selectedId)

(* ------------------------------ Init ----------------------------------- *)
(* Records persisted by an earlier session, newest first. *)
EarlierEntry(k, n, uuid) ==
  [id |-> IF uuid THEN <<"uuid", n - k + 1>> ELSE <<"ts", 0 - k>>,
   prompt |-> <<"a">>,
   url |-> "old.glb",
   thumbnailUrl |-> Undefined,
   metadata |-> Undefined,
   createdAt |-> 0 - k]

EarlierHistory(n, uuid) == [k \in 1..n |-> EarlierEntry(k, n, uuid)]

EarlierLengths == {HISTORY_CAP - 1}

Init ==
  /\ hasRandomUUID \in BOOLEAN
  /\ store \in {NoItem} \cup
       {JSONstringify(EarlierHistory(n, hasRandomUUID)) : n \in EarlierLengths}
  /\ history = readHistory(store)
  /\ uuids = Len(history)
  /\ selectedId = NullId
  /\ mutations = <<>>
  /\ requests = {}
  /\ current = 0
  /\ now = 0

(* --------------------------- persistHistory ---------------------------- *)
(* setItem either stores the text or throws (quota, disabled storage);     *)
(* the exception is caught and logged, and the item stays as it was.       *)
persistHistory(entries, throws) ==
  store' = IF throws THEN store ELSE JSONstringify(entries)

(* ---------------------------- generateModel ---------------------------- *)
promptIsEmptyUntrimmed(prompt) == prompt = <<>>

promptIsEmpty(prompt) == trim(prompt) = <<>>

MutationState(status, err) == [status |-> status, error |-> err]

Request(i, prompt) == [call |-> i, prompt |-> prompt, text |-> trim(prompt)]

(* mutateAsync: the observer moves to a new mutation, which runs mutationFn *)
(* up to its first await on the network, or to its throw.                   *)
generateModel(prompt) ==
  /\ Len(mutations) < MaxCalls
  /\ current' = Len(mutations) + 1
  /\ IF promptIsEmpty(prompt)
     THEN /\ mutations' = Append(mutations, MutationState("error", EmptyPromptError))
          /\ requests' = requests
     ELSE /\ mutations' = Append(mutations, MutationState("pending", Null))
          /\ requests' = requests \cup {Request(Len(mutations) + 1, prompt)}
  /\ UNCHANGED <<store, history, selectedId, hasRandomUUID, uuids, now>>

(* ------------------------- response handling --------------------------- *)
hasUrlDefined(data) == data.url # Undefined

hasUrl(data) == data.url # Undefined /\ data.url # ""

newId == IF hasRandomUUID THEN <<"uuid", uuids + 1>> ELSE <<"ts", now>>

entryPrompt(req) == req.prompt

Entry(id, result, prompt) ==
  [id |-> id,
   prompt |-> prompt,
   url |-> result.url,
   thumbnailUrl |-> result.thumbnailUrl,
   metadata |-> result.metadata,
   createdAt |-> now]

Min(a, b) == IF a < b THEN a ELSE b

sliceFromEnd(s, n) == SubSeq(s, Len(s) - Min(n, Len(s)) + 1, Len(s))

slice(s, n) == SubSeq(s, 1, Min(n, Len(s)))

nextHistoryUncut(entry, prev) == <<entry>> \o prev

nextHistory(entry, prev) == slice(<<entry>> \o prev, HISTORY_CAP)

writtenBeforeUpdate(next, prev) == prev

(* The list the updater hands to persistHistory. *)
written(next, prev) == next

nextSelectedIdNull(entry, prev) == NullId

nextSelectedIdKept(entry, prev) == prev

nextSelectedId(entry, prev) == entry.id

onSuccess(result, prompt, throws) ==
  LET entry == Entry(newId, result, prompt)
      next == nextHistory(entry, history)
  IN  /\ persistHistory(written(next, history), throws)
      /\ history' = next
      /\ selectedId' = nextSelectedId(entry, selectedId)
      /\ uuids' = IF hasRandomUUID THEN uuids + 1 ELSE uuids

(* Settling the latest mutation instead of the one that resolved. *)
settleLatest(i, status, err) ==
  mutations' = [mutations EXCEPT ![Len(mutations)] = MutationState(status, err)]

settle(i, status, err) ==
  mutations' = [mutations EXCEPT ![i] = MutationState(status, err)]

(* axios.post resolved with a 2xx response carrying data: the rest of      *)
(* mutationFn, then onSuccess, then the mutation's own state.              *)
(* The event when persistHistory has no try/catch: the exception leaves    *)
(* the updater, so the cache and the selection stay and the mutation fails. *)
ResponseHandledUncaught(req, data, throws) ==
  /\ req \in requests
  /\ requests' = requests \ {req}
  /\ IF hasUrl(data) /\ ~throws
     THEN /\ onSuccess(data, entryPrompt(req), throws)
          /\ settle(req.call, "success", Null)
     ELSE /\ settle(req.call, "error",
                 IF hasUrl(data) THEN "QuotaExceededError" ELSE EmptyResponseError)
          /\ UNCHANGED <<store, history, selectedId, uuids>>
  /\ UNCHANGED <<current, hasRandomUUID, now>>

(* `throws` says whether setItem throws during this event.                 *)
ResponseHandled(req, data, throws) ==
  /\ req \in requests
  /\ requests' = requests \ {req}
  /\ IF hasUrl(data)
     THEN /\ onSuccess(data, entryPrompt(req), throws)
          /\ settle(req.call, "success", Null)
     ELSE /\ settle(req.call, "error", EmptyResponseError)
          /\ UNCHANGED <<store, history, selectedId, uuids>>
  /\ UNCHANGED <<current, hasRandomUUID, now>>

ResponseArrives(req, data) ==
  \E throws \in BOOLEAN : ResponseHandled(req, data, throws)

(* axios.post rejected: network error, non-2xx status, undecodable body. *)
RequestFails(req) ==
  /\ req \in requests
  /\ requests' = requests \ {req}
  /\ settle(req.call, "error", TransportError)
  /\ UNCHANGED <<store, history, selectedId, current, hasRandomUUID, uuids, now>>

(* ------------------------ the other operations ------------------------- *)
DanglingId == <<"uuid", 0>>

(* The ids the view passes to selectModel: the newest record's, the oldest *)
(* record's, and one that no record has.                                   *)
SelectableIds ==
  {history[i].id : i \in {1, Len(history)} \cap DOMAIN history} \cup {DanglingId}

selectModel(id) ==
  /\ selectedId' = id
  /\ UNCHANGED <<store, history, mutations, requests, current, hasRandomUUID, uuids, now>>

clearHistoryKeepingSelection(throws) ==
  /\ persistHistory(<<>>, throws)
  /\ history' = <<>>
  /\ selectedId' = selectedId
  /\ UNCHANGED <<mutations, requests, current, hasRandomUUID, uuids, now>>

clearHistoryWhen(throws) ==
  /\ persistHistory(<<>>, throws)
  /\ history' = <<>>
  /\ selectedId' = NullId
  /\ UNCHANGED <<mutations, requests, current, hasRandomUUID, uuids, now>>

clearHistory == \E throws \in BOOLEAN : clearHistoryWhen(throws)

resetErrorAndSelection ==
  /\ current' = 0
  /\ selectedId' = NullId
  /\ UNCHANGED <<store, history, mutations, requests, hasRandomUUID, uuids, now>>

(* mutation.reset: the observer lets go of its mutation. *)
resetError ==
  /\ current' = 0
  /\ UNCHANGED <<store, history, selectedId, mutations, requests, hasRandomUUID, uuids, now>>

(* The millisecond clock advances between events. *)
Tick ==
  /\ now < MaxTime
  /\ now' = now + 1
  /\ UNCHANGED <<store, history, selectedId, mutations, requests, current, hasRandomUUID, uuids>>

Next ==
  \/ \E p \in Prompts : generateModel(p)
  \/ \E req \in requests : \E d \in Responses : ResponseArrives(req, d)
  \/ \E req \in requests : RequestFails(req)
  \/ \E id \in SelectableIds : selectModel(id)
  \/ clearHistory
  \/ resetError
  \/ Tick

Spec == Init /\ [][Next]_vars

(* ------------------------- the codec on its own ------------------------ *)
(* readHistory and persistHistory over stored values and histories that    *)
(* the sessions above do not produce: a page load over any stored value,   *)
(* and the updater's write of any valid history.                           *)
CodecEntries ==
  { [id |-> <<"uuid", 1>>, prompt |-> <<"a">>, url |-> "a.glb",
     thumbnailUrl |-> "a.png", metadata |-> "{wingspan}", createdAt |-> 0],
    [id |-> <<"uuid", 2>>, prompt |-> <<" ", "a", " ">>, url |-> "b.glb",
     thumbnailUrl |-> Undefined, metadata |-> Undefined, createdAt |-> 1],
    [id |-> <<"ts", 1>>, prompt |-> <<"a">>, url |-> "b.glb",
     thumbnailUrl |-> "a.png", metadata |-> Undefined, createdAt |-> 1],
    [id |-> <<"ts", 1>>, prompt |-> <<"a">>, url |-> "a.glb",
     thumbnailUrl |-> Undefined, metadata |-> "{wingspan}", createdAt |-> 1] }

(* Histories that satisfy the data-model invariants. *)
ValidHistories ==
  { h \in UNION {[1..n -> CodecEntries] : n \in 0..MaxCodecLen} :
      /\ Len(h) <= HISTORY_CAP
      /\ \A i, j \in DOMAIN h : i # j => h[i].id # h[j].id
      /\ \A i \in DOMAIN h : h[i].url \notin {Undefined, ""} }

StoredValues ==
  {<<"no-window">>, <<"denied">>, NoItem, <<"empty">>, <<"malformed">>}
    \cup NonArrayTexts
    \cup {JSONstringify(h) : h \in ValidHistories}

InitCodec ==
  /\ store \in StoredValues
  /\ history = readHistory(store)
  /\ hasRandomUUID = TRUE
  /\ uuids = 0
  /\ selectedId = NullId
  /\ mutations = <<>>
  /\ requests = {}
  /\ current = 0
  /\ now = 0

(* The cache update of lines 71-75 for any valid next history. *)
SaveHistory(h, throws) ==
  /\ persistHistory(h, throws)
  /\ history' = h
  /\ UNCHANGED <<selectedId, mutations, requests, current, hasRandomUUID, uuids, now>>

(* A new page load: the hook is constructed again over the stored value. *)
Reload ==
  /\ history' = readHistory(store)
  /\ selectedId' = NullId
  /\ UNCHANGED <<store, mutations, requests, current, hasRandomUUID, uuids, now>>

NextCodec ==
  \/ \E h \in ValidHistories : \E throws \in BOOLEAN : SaveHistory(h, throws)
  \/ Reload

SpecCodec == InitCodec /\ [][NextCodec]_vars

(* ============================ properties =============================== *)
(* A response the spec calls successful: it carries a non-empty url. *)
Usable(d) == d.url \notin {Undefined, ""}

Ids(h) == {h[i].id : i \in DOMAIN h}

Succeeded == {i \in DOMAIN mutations : mutations[i].status = "success"}

Settled(i) == i \in DOMAIN mutations /\ mutations[i].status # "pending"

(* C1: a successful response to a call that was superseded by a later call, *)
(* arriving after that later call has resolved, adds no record, does not    *)
(* change the selection and does not write the store.                       *)
StaleResponseSuppressed ==
  [][\A req \in requests : \A d \in Responses :
       (/\ ResponseArrives(req, d)
        /\ Usable(d)
        /\ \E j \in DOMAIN mutations : j > req.call /\ Settled(j))
       => UNCHANGED <<history, selectedId, store>>]_vars

(* C2: the in-memory history and the stored history never exceed 20 records. *)
CapInvariant ==
  /\ Len(history) <= HISTORY_CAP
  /\ Len(readHistory(store)) <= HISTORY_CAP

CapWitness ==
  /\ Cardinality(Succeeded) = 2
  /\ Len(history) = HISTORY_CAP
  /\ Len(readHistory(store)) = HISTORY_CAP
  /\ history[HISTORY_CAP] # EarlierEntry(HISTORY_CAP - 1, HISTORY_CAP - 1, hasRandomUUID)

(* C3: history changes only by clearHistory or by a commit; a commit on n   *)
(* records puts one record in front of the previous ones, kept in order and *)
(* unchanged, dropping exactly the previous last record when n = 20 and     *)
(* none when n < 20.                                                        *)
RecordLifecycle ==
  [][/\ history' # history =>
          \/ clearHistory
          \/ \E req \in requests : \E d \in Responses :
               ResponseArrives(req, d) /\ Usable(d)
     /\ \A req \in requests : \A d \in Responses :
          (ResponseArrives(req, d) /\ Usable(d))
          => /\ Len(history') = Min(Len(history) + 1, HISTORY_CAP)
             /\ history'[1].url = d.url
             /\ history'[1].createdAt = now
             /\ \A k \in 1..(Len(history') - 1) : history'[k + 1] = history[k]]_vars

EvictionWitness ==
  /\ Cardinality(Succeeded) = 2
  /\ Len(history) = HISTORY_CAP
  /\ history[3] = EarlierEntry(1, HISTORY_CAP - 1, hasRandomUUID)
  /\ history[HISTORY_CAP] = EarlierEntry(HISTORY_CAP - 2, HISTORY_CAP - 1, hasRandomUUID)

(* C4: no two records of history share an id. *)
IdsUnique ==
  \A i, j \in DOMAIN history : i # j => history[i].id # history[j].id

(* C5: generateModel with a prompt that is empty after trimming fails with  *)
(* the empty-prompt error, sends no request, and leaves history, selection  *)
(* and the store as they were.                                              *)
EmptyPromptRejected ==
  [][\A p \in Prompts :
       (generateModel(p) /\ trim(p) = <<>>)
       => /\ mutations'[Len(mutations')] = MutationState("error", EmptyPromptError)
          /\ error' = EmptyPromptError
          /\ requests' = requests
          /\ UNCHANGED <<history, selectedId, store>>]_vars

EmptyPromptWitness ==
  /\ current # 0
  /\ mutations[current].error = EmptyPromptError
  /\ requests # {}
  /\ history # <<>>

(* C6 as stated: when the most recently issued call resolves with a usable  *)
(* url, the new record is history[0] with the response's url, thumbnailUrl  *)
(* and metadata, it is selected, the stored history equals the in-memory    *)
(* one, isGenerating is false and error is null.                            *)
CommitsMostRecent(req, d) ==
  ResponseArrives(req, d) /\ Usable(d) /\ req.call = Len(mutations)

CommitPost(d) ==
  /\ history' # <<>>
  /\ history'[1].url = d.url
  /\ history'[1].thumbnailUrl = d.thumbnailUrl
  /\ history'[1].metadata = d.metadata
  /\ selectedId' = history'[1].id
  /\ selectedModel' = <<history'[1]>>
  /\ ~isGenerating'
  /\ error' = Null

SuccessCommitAlwaysStored ==
  [][\A req \in requests : \A d \in Responses :
       CommitsMostRecent(req, d)
       => CommitPost(d) /\ readHistory(store') = history']_vars

(* C6 amended: as above, except that the stored history equals the          *)
(* in-memory one when the store write succeeds, and the store keeps its     *)
(* previous value when the write throws.                                    *)
SuccessCommit ==
  [][\A req \in requests : \A d \in Responses :
       CommitsMostRecent(req, d)
       => /\ CommitPost(d)
          /\ \/ store' = JSONstringify(history') /\ readHistory(store') = history'
             \/ store' = store]_vars

SuccessCommitWitness ==
  /\ Len(mutations) = 2
  /\ current = 2
  /\ mutations[2].status = "success"
  /\ history # <<>>
  /\ history[1].thumbnailUrl = "a.png"
  /\ selectedId = history[1].id
  /\ readHistory(store) = history

(* C7: the prompt of a record created by generateModel(p) is trim(p), the   *)
(* text sent in the request.                                                *)
StoredPromptTrimmed ==
  [][\A req \in requests : \A d \in Responses :
       (ResponseArrives(req, d) /\ Usable(d))
       => history'[1].prompt = trim(req.prompt) /\ history'[1].prompt = req.text]_vars

(* C8 as stated: whenever a generate call fails (empty prompt, transport    *)
(* failure, response without url) the hook's error becomes non-null and     *)
(* isGenerating false, and history, selection and store are unchanged.      *)
FailureOf(i) ==
  \/ /\ i = Len(mutations) + 1
     /\ \E p \in Prompts : generateModel(p) /\ trim(p) = <<>>
  \/ \E req \in requests :
       /\ req.call = i
       /\ \/ RequestFails(req)
          \/ \E d \in Responses : ResponseArrives(req, d) /\ ~Usable(d)

DataUnchanged == UNCHANGED <<history, selectedId, store>>

Failed == error # Null /\ ~isGenerating

EveryFailureShowsFailed ==
  [][\A i \in 1..MaxCalls : FailureOf(i) => Failed' /\ DataUnchanged]_vars

(* C8 amended: a failing generate call leaves history, selection and store  *)
(* unchanged; the hook's state becomes Failed with a non-null error when    *)
(* the failing call is the one the hook observes (the latest call issued,   *)
(* with no resetError since).                                               *)
FailureLeavesDataUnchanged ==
  [][\A i \in 1..MaxCalls :
       FailureOf(i) => /\ DataUnchanged
                       /\ i = current' => Failed']_vars

FailureWitness ==
  /\ Len(mutations) = 2
  /\ current = 2
  /\ mutations[1].status = "success"
  /\ mutations[2].error = TransportError
  /\ error = TransportError
  /\ Len(history) = 1

(* C9: a 2xx response without a usable url creates no record, leaves        *)
(* history unchanged and ends the call in error with the empty-response     *)
(* error; history never holds a record with an empty url.                   *)
NoUrlIsFailure ==
  /\ [](\A k \in DOMAIN history : history[k].url \notin {Undefined, ""})
  /\ [][\A req \in requests : \A d \in Responses :
          (ResponseArrives(req, d) /\ ~Usable(d))
          => /\ history' = history
             /\ mutations'[req.call] = MutationState("error", EmptyResponseError)]_vars

NoUrlWitness ==
  /\ \E i \in DOMAIN mutations : mutations[i].error = EmptyResponseError
  /\ current # 0
  /\ error = EmptyResponseError
  /\ Len(history) = HISTORY_CAP - 1

(* C10: selectedModel is the record with the selected id when there is one, *)
(* otherwise the head of history, and none exactly when history is empty.   *)
SelectionFallback ==
  /\ selectedId \in Ids(history) =>
       /\ selectedModel # <<>>
       /\ selectedModel[1].id = selectedId
       /\ \E k \in DOMAIN history : history[k] = selectedModel[1]
  /\ (selectedId \notin Ids(history) /\ history # <<>>) =>
       selectedModel = <<history[1]>>
  /\ selectedModel = <<>> <=> history = <<>>

SelectionFallbackWitness ==
  /\ selectedId = DanglingId
  /\ Len(history) > 1
  /\ Succeeded # {}
  /\ selectedModel = <<history[1]>>

(* C11 as stated: right after clearHistory the history is empty, the store  *)
(* holds the encoding of the empty history, the selected id is none and     *)
(* selectedModel is none.                                                   *)
ClearedInMemory ==
  /\ history' = <<>>
  /\ selectedId' = NullId
  /\ selectedModel' = <<>>

ClearHistoryAlwaysStored ==
  [][clearHistory => ClearedInMemory /\ store' = JSONstringify(<<>>)]_vars

(* C11 amended: as above, except that the store holds the encoding of the   *)
(* empty history when the store write succeeds and keeps its previous value *)
(* when the write throws.                                                   *)
ClearHistoryPost ==
  [][\A throws \in BOOLEAN :
       clearHistoryWhen(throws)
       => /\ ClearedInMemory
          /\ store' = IF throws THEN store ELSE JSONstringify(<<>>)
          /\ ~throws => readHistory(store') = <<>>]_vars

ClearHistoryWitness ==
  /\ history = <<>>
  /\ selectedId = NullId
  /\ store = JSONstringify(<<>>)
  /\ requests # {}
  /\ Succeeded # {}

(* C12 as stated: the history change, the selection change and the store    *)
(* write of a commit or of clearHistory happen in one step: no state has    *)
(* the new head with the previous selection, or the new history with the    *)
(* previous stored history.                                                 *)
SelectionMovesWithHistory ==
  selectedId' = IF history' = <<>> THEN NullId ELSE history'[1].id

RequestStateFlags ==
  /\ Cardinality(requests) <= 1
  /\ isGenerating <=> requests # {}
  /\ error # Null <=> (current # 0 /\ mutations[current].status = "error")
  /\ ~(isGenerating /\ error # Null)

(* C14: when the store write succeeds, a commit and clearHistory leave the  *)
(* decoded store equal to the in-memory history; selectModel and resetError *)
(* never write the store.                                                   *)
StoreFollowsMemory ==
  [][/\ \A req \in requests : \A d \in Responses :
          (ResponseHandled(req, d, FALSE) /\ Usable(d))
          => readHistory(store') = history'
     /\ clearHistoryWhen(FALSE) => readHistory(store') = history'
     /\ ((\E id \in SelectableIds : selectModel(id)) \/ resetError)
          => store' = store]_vars

StoreFollowsMemoryWitness ==
  /\ Len(history) = HISTORY_CAP
  /\ readHistory(store) = history
  /\ Succeeded # {}
  /\ selectedId = DanglingId
  /\ current = 0

(* C15: when the store write throws during a commit or clearHistory, the    *)
(* history and the selection are updated as with a successful write, the    *)
(* call ends in success with error null, and the store is left as it was.   *)
PersistenceFailureNonFatal ==
  [][/\ \A req \in requests : \A d \in Responses :
          (ResponseHandled(req, d, TRUE) /\ Usable(d))
          => /\ Len(history') = Min(Len(history) + 1, HISTORY_CAP)
             /\ history'[1].url = d.url
             /\ \A k \in 1..(Len(history') - 1) : history'[k + 1] = history[k]
             /\ selectedId' = history'[1].id
             /\ mutations'[req.call] = MutationState("success", Null)
             /\ req.call = current => (error' = Null /\ ~isGenerating')
             /\ store' = store
     /\ clearHistoryWhen(TRUE)
          => /\ history' = <<>>
             /\ selectedId' = NullId
             /\ UNCHANGED <<mutations, current, store>>]_vars

PersistenceFailureWitness ==
  /\ store = NoItem
  /\ Len(history) = 1
  /\ selectedId = history[1].id
  /\ current = 1
  /\ mutations[1] = MutationState("success", Null)

(* C16: readHistory never raises; it returns the empty history for a stored *)
(* value that is absent, empty, unparseable or no array, and a non-empty    *)
(* history only for a text that parses to a non-empty array.                *)
CorruptKinds ==
  {"no-window", "denied", "absent", "empty", "malformed",
   "object", "number", "string", "null-literal"}

CorruptStoreResilience ==
  /\ ~readHistoryOutcome(store).raised
  /\ store[1] \in CorruptKinds => readHistoryOutcome(store).value = <<>>
  /\ readHistoryOutcome(store).value # <<>> => (store[1] = "json" /\ store[2] # <<>>)

CorruptStoreWitness ==
  /\ store = <<"malformed">>
  /\ history = <<>>

ResetErrorPost ==
  [][resetError =>
       /\ Failed => (error' = Null /\ ~isGenerating' /\ current' = 0)
       /\ DataUnchanged
       /\ UNCHANGED <<mutations, requests>>]_vars

ResetErrorWitness ==
  /\ current = 0
  /\ mutations # <<>>
  /\ mutations[Len(mutations)].status = "error"
  /\ selectedId # NullId
  /\ history # <<>>

(* C19: a non-null error stays non-null through selectModel, clearHistory   *)
(* and responses to superseded calls; it becomes null only by a new         *)
(* generateModel call or resetError; and a generateModel call sends at most *)
(* one request, no other step sends any.                                    *)
FailedIsSticky ==
  [][/\ (error # Null /\ error' = Null)
          => (resetError \/ \E p \in Prompts : generateModel(p))
     /\ requests' \subseteq requests
          \/ /\ \E p \in Prompts : generateModel(p)
             /\ Cardinality(requests' \ requests) = 1
             /\ \A r \in requests' \ requests : r.call = Len(mutations')]_vars

FailedIsStickyWitness ==
  /\ Len(mutations) = 2
  /\ current = 2
  /\ mutations[1].status = "success"
  /\ error = EmptyPromptError
  /\ history = <<>>
  /\ selectedId = DanglingId

(* C20: history and the selected id change only in clearHistory, selectModel *)
(* or the resolution of a generate call taken while isGenerating is true.   *)
Quiescence ==
  [][(history' # history \/ selectedId' # selectedId)
       => \/ clearHistory
          \/ \E id \in SelectableIds : selectModel(id)
          \/ /\ isGenerating
             /\ \E req \in requests : \E d \in Responses : ResponseArrives(req, d)]_vars

====
